---- MODULE Spec2Model ----
(***************************************************************************)
(* Model of the news ingestion pipeline of NOIT_2025/BUCKS-main:           *)
(*   cnn_news_scraper_v2.py    poll_loop / fetch_feed / store_entry         *)
(*   news_impact_analyzer_v3.py fetch_recent_articles                       *)
(*                                                                         *)
(* Instants are whole seconds counted from 2025-01-01T00:00:00+00:00; the  *)
(* model stays inside January 2025, so the calendar date of an instant is  *)
(* 2025-01-(1 + instant \div 86400).  Text is a sequence of character      *)
(* codes, compared the way SQLite's BINARY collation compares TEXT.        *)
(***************************************************************************)
EXTENDS Integers, Sequences, FiniteSets, TLC

VARIABLES
    clock,      \* datetime.now(tz=utc), in seconds
    ticks,      \* how often the wall clock has been advanced (bounded)
    committed,  \* rows of table articles that are durable in cnn_articles.db
    pending,    \* rows written on the shared connection and not yet committed
    mpc,        \* position of poll_loop
    cycle,      \* number of the running cycle (0 before the first)
    start,      \* poll_loop's local `start`
    wakeAt,     \* instant at which asyncio.sleep returns
    summary,    \* the count logged by "Cycle finished | new_articles=%d"
    tpc,        \* per feed: position of its fetch_feed task
    entries,    \* per feed: parsed.entries
    idx,        \* per feed: index of the entry store_entry is working on
    found,      \* per feed: what the SELECT of the running store_entry saw
    pub,        \* per feed: store_entry's local published_dt
    chk,        \* per feed: the now() read by the freshness test (line 85)
    results,    \* per feed: the values collected by the list comprehension
    calls,      \* history, per feed: what each returned store_entry call saw
    fetchErr,   \* per feed: feedparser.parse failed in this cycle
    fetched,    \* number of raw items handed out by the feeds so far (bounded)
    wlog,       \* history: one record per executed INSERT
    apc,        \* position of the analyzer's main
    since,      \* analyzer: main's local `since`
    articles,   \* analyzer: the list fetch_recent_articles returned
    nread,      \* history: how many durable rows there were when it read
    buckets,    \* analyzer: main's dict ticker -> list of articles
    blocks,     \* analyzer: main's user_blocks, one text block per ticker
    reply,      \* analyzer: what the chat completion call came back with
    feedOut     \* per feed: the entries a feed with fixed output serves

vars == << clock, ticks, committed, pending, mpc, cycle, start, wakeAt, summary,
           tpc, entries, idx, found, pub, chk, results, calls,
           fetchErr, fetched, wlog, apc, since, articles, nread, buckets,
           blocks, reply, feedOut >>

dbVars   == << committed, pending, wlog >>
mainVars == << mpc, cycle, start, wakeAt, summary >>
taskVars == << tpc, entries, idx, found, pub, chk, results, calls, fetchErr,
              fetched >>
anaVars  == << apc, since, articles, nread, buckets, blocks, reply >>

-----------------------------------------------------------------------------
(* Configuration                                                           *)

POLL_INTERVAL == 60
MAX_AGE_HOURS == 24
LOOKBACK_HOURS == 24

FEEDS == {"topstories", "world"}

\* timedelta(hours=h) in seconds
Hours(h) == h * 3600

MaxAge == Hours(MAX_AGE_HOURS)

\* bounds of the model
MaxCycles == 2
MaxItems == 2
MaxTicks == 1

\* the instant the model starts at: 2025-01-03T10:00:00+00:00
T0 == 2 * 86400 + Hours(10)

Max(a, b) == IF a >= b THEN a ELSE b

RECURSIVE SumSeq(_)
SumSeq(s) == IF s = << >> THEN 0 ELSE Head(s) + SumSeq(Tail(s))

-----------------------------------------------------------------------------
(* Text: datetime.isoformat, dateutil's parse, SQLite's TEXT comparison    *)

Digits2(n) == << 48 + (n \div 10), 48 + (n % 10) >>

\* "2025-01-DD"
DateText(t) == << 50, 48, 50, 53, 45, 48, 49, 45 >> \o Digits2(1 + (t \div 86400))

\* "HH:MM:SS"
TimeText(t) ==
    LET s == t % 86400
    IN  Digits2(s \div 3600) \o << 58 >> \o Digits2((s % 3600) \div 60)
          \o << 58 >> \o Digits2(s % 60)

\* "+00:00"
UtcOffsetText == << 43, 48, 48, 58, 48, 48 >>

\* datetime.isoformat(sep) of a UTC-aware datetime without microseconds
isoformat(t, sep) == DateText(t) \o << sep >> \o TimeText(t) \o UtcOffsetText

SepT == 84
SepSpace == 32

Num2(txt, i) == (txt[i] - 48) * 10 + (txt[i + 1] - 48)

\* dateutil.parser.parse of such a text: either separator is accepted
dt_parse(txt) ==
    (Num2(txt, 9) - 1) * 86400 + Num2(txt, 12) * 3600 + Num2(txt, 15) * 60
        + Num2(txt, 18)

\* SQLite: a >= b for two TEXT values under the BINARY collation (memcmp,
\* then the longer one is the greater)
RECURSIVE TextGE(_, _)
TextGE(a, b) ==
    IF b = << >> THEN TRUE
    ELSE IF a = << >> THEN FALSE
    ELSE IF Head(a) # Head(b) THEN Head(a) > Head(b)
    ELSE TextGE(Tail(a), Tail(b))

-----------------------------------------------------------------------------
(* Helpers of the scraper                                                  *)

\* hashlib.sha256(link.encode()).hexdigest(): an injective digest of the link
article_id(link) == << "sha256", link >>

\* entry.get(key): the value is absent (<< >>) or a one-element tuple
Present(field) == Len(field) > 0

parse_datetime_updated_first(entry, now) ==
    IF Present(entry.updated_parsed) THEN entry.updated_parsed[1]
    ELSE IF Present(entry.published_parsed) THEN entry.published_parsed[1]
    ELSE now

parse_datetime(entry, now) ==
    IF Present(entry.published_parsed) THEN entry.published_parsed[1]
    ELSE IF Present(entry.updated_parsed) THEN entry.updated_parsed[1]
    ELSE now

IsFreshStrict(published_dt, now) == published_dt > now - MaxAge

IsFreshAlways(published_dt, now) == TRUE

\* line 85, negated: the item is kept
IsFresh(published_dt, now) == ~(published_dt < now - MaxAge)

DuplicateReturnsTrue == TRUE

\* what `return False  # duplicate` hands back
DuplicateReturn == FALSE

\* the rows the shared connection sees: durable ones and its open transaction
Visible == committed \o pending

RowNeverFound(rows, aid) == FALSE

\* SELECT 1 FROM articles WHERE id = ? ... fetchone()
RowExists(rows, aid) == \E i \in 1..Len(rows) : rows[i].id = aid

NoPrimaryKey(rows, aid) == TRUE

\* id TEXT PRIMARY KEY: the INSERT is refused when the id is already there
PrimaryKeyFree(rows, aid) == ~RowExists(rows, aid)

\* the tuple bound to the INSERT statement
NewRow(feed_url, entry, published_dt) ==
    [ id        |-> article_id(entry.link),
      title     |-> entry.title,
      link      |-> entry.link,
      published |-> isoformat(published_dt, SepT),
      summary   |-> entry.summary,
      feed      |-> feed_url ]

SeqsUpTo(S, n) == UNION { [1..k -> S] : k \in 0..n }

Min(a, b) == IF a <= b THEN a ELSE b

CurReversed(s) == entries[s][Len(entries[s]) + 1 - idx[s]]

\* the entry store_entry of feed s is working on: the list comprehension of
\* line 108 walks parsed.entries from its first entry on
Cur(s) == entries[s][idx[s]]

\* history record of one store_entry call: what its SELECT found, the
\* published_dt it resolved and the now() of its freshness test (the last two
\* only when it got that far)
Seen(f, p, n) == [ found |-> f, pub |-> p, now |-> n ]

\* store_entry returns r: its locals are gone, the list comprehension of
\* fetch_feed records r and moves to the next entry, or fetch_feed returns
Return(s, r, seen) ==
    /\ results' = [results EXCEPT ![s] = Append(@, r)]
    /\ calls' = [calls EXCEPT ![s] = Append(@, seen)]
    /\ found' = [found EXCEPT ![s] = FALSE]
    /\ pub' = [pub EXCEPT ![s] = 0]
    /\ chk' = [chk EXCEPT ![s] = 0]
    /\ IF idx[s] < Len(entries[s])
         THEN /\ idx' = [idx EXCEPT ![s] = @ + 1]
              /\ tpc' = [tpc EXCEPT ![s] = "select"]
         ELSE /\ idx' = idx
              /\ tpc' = [tpc EXCEPT ![s] = "done"]

\* an exception leaves store_entry and fetch_feed
Raise(s, why) == tpc' = [tpc EXCEPT ![s] = why]

Raised(s) == tpc[s] \in {"FetchError", "IntegrityError", "StorageError"}

\* tasks only run while the event loop runs
LoopRuns == mpc \in {"gather", "unwinding"}

-----------------------------------------------------------------------------
(* fetch_feed / store_entry, one action per resumption of the task          *)

\* line 107, feedparser.parse(feed_url): a list of entries, an empty list with
\* the bozo flag set, or an exception.  Cat[s] is what feed s can serve and
\* budget the number of raw items the feeds hand out in one run of the model.
Fetch(s, Cat, budget) ==
    /\ LoopRuns /\ tpc[s] = "fetch"
    /\ \/ \E es \in SeqsUpTo(Cat[s], budget - fetched) :
            /\ entries' = [entries EXCEPT ![s] = es]
            /\ fetched' = fetched + Len(es)
            /\ idx' = [idx EXCEPT ![s] = Min(1, Len(es))]
            /\ tpc' = [tpc EXCEPT ![s] = IF es = << >> THEN "done" ELSE "select"]
            /\ UNCHANGED fetchErr
       \/ /\ fetchErr' = [fetchErr EXCEPT ![s] = TRUE]
          /\ entries' = [entries EXCEPT ![s] = << >>]
          /\ tpc' = [tpc EXCEPT ![s] = "done"]
          /\ UNCHANGED << idx, fetched >>
       \/ /\ fetchErr' = [fetchErr EXCEPT ![s] = TRUE]
          /\ Raise(s, "FetchError")
          /\ UNCHANGED << entries, idx, fetched >>
    /\ UNCHANGED << clock, ticks, dbVars, mainVars, anaVars, feedOut, found, pub, chk, results,
                    calls >>

\* line 107 for feeds whose output is fixed: the parse of the first cycle
\* returns any list of the catalogue, every later parse the same list again
FetchFixed(s, Cat, budget) ==
    /\ LoopRuns /\ tpc[s] = "fetch"
    /\ \E es \in (IF cycle = 1 THEN SeqsUpTo(Cat[s], budget - fetched)
                               ELSE { feedOut[s] }) :
          /\ entries' = [entries EXCEPT ![s] = es]
          /\ feedOut' = [feedOut EXCEPT ![s] = es]
          /\ fetched' = IF cycle = 1 THEN fetched + Len(es) ELSE fetched
          /\ idx' = [idx EXCEPT ![s] = Min(1, Len(es))]
          /\ tpc' = [tpc EXCEPT ![s] = IF es = << >> THEN "done" ELSE "select"]
    /\ UNCHANGED << clock, ticks, dbVars, mainVars, anaVars, found, pub, chk, results,
                    calls, fetchErr >>

\* lines 78-79: the SELECT runs on the connection
Select(s) ==
    /\ LoopRuns /\ tpc[s] = "select"
    /\ \/ /\ found' = [found EXCEPT ![s] = RowExists(Visible, article_id(Cur(s).link))]
          /\ tpc' = [tpc EXCEPT ![s] = "check"]
       \/ /\ Raise(s, "StorageError")
          /\ UNCHANGED found
    /\ UNCHANGED << clock, ticks, dbVars, mainVars, anaVars, feedOut, entries, idx, pub, chk,
                    results, calls, fetchErr, fetched >>

\* lines 80-81: fetchone() has answered and a row is there
CheckDuplicate(s) ==
    /\ LoopRuns /\ tpc[s] = "check" /\ found[s]
    /\ Return(s, DuplicateReturn, Seen(TRUE, << >>, << >>))
    /\ UNCHANGED << clock, ticks, dbVars, mainVars, anaVars, feedOut, entries, fetchErr, fetched >>

\* lines 80-86: fetchone() has answered and no row is there; timestamp and
\* freshness.  d is the time that passes between the now() of line 58 and the
\* now() of line 85.
CheckFresh(s) ==
    /\ LoopRuns /\ tpc[s] = "check" /\ ~found[s]
    /\ \E d \in {0, 1} :
         LET published_dt == parse_datetime(Cur(s), clock)
             now == clock + d
         IN  /\ d = 0 \/ ticks < MaxTicks
             /\ clock' = now
             /\ ticks' = ticks + d
             /\ IF IsFresh(published_dt, now)
                  THEN /\ pub' = [pub EXCEPT ![s] = published_dt]
                       /\ chk' = [chk EXCEPT ![s] = now]
                       /\ tpc' = [tpc EXCEPT ![s] = "insert"]
                       /\ UNCHANGED << idx, results, calls, found >>
                  ELSE Return(s, FALSE, Seen(FALSE, << published_dt >>, << now >>))
    /\ UNCHANGED << dbVars, mainVars, anaVars, feedOut, entries, fetchErr, fetched >>

\* lines 88-101: the INSERT runs on the connection
Insert(s) ==
    /\ LoopRuns /\ tpc[s] = "insert"
    /\ \/ /\ PrimaryKeyFree(Visible, article_id(Cur(s).link))
          /\ pending' = Append(pending, NewRow(s, Cur(s), pub[s]))
          /\ wlog' = wlog \cup { [ id |-> article_id(Cur(s).link),
                                   pub |-> pub[s], now |-> chk[s],
                                   cycle |-> cycle ] }
          /\ tpc' = [tpc EXCEPT ![s] = "commit"]
       \/ /\ ~PrimaryKeyFree(Visible, article_id(Cur(s).link))
          /\ Raise(s, "IntegrityError")
          /\ UNCHANGED << pending, wlog >>
       \/ /\ Raise(s, "StorageError")
          /\ UNCHANGED << pending, wlog >>
    /\ UNCHANGED << clock, ticks, committed, mainVars, anaVars, feedOut, entries, idx, found,
                    pub, chk, results, calls, fetchErr, fetched >>

CommitOnlyPending(durable, open) == open

\* line 102: the rows of the open transaction are added to the durable ones
CommitRows(durable, open) == durable \o open

\* lines 102-103: COMMIT of the connection's open transaction, return True
Commit(s) ==
    /\ LoopRuns /\ tpc[s] = "commit"
    /\ \/ /\ committed' = CommitRows(committed, pending)
          /\ pending' = << >>
          /\ Return(s, TRUE, Seen(FALSE, << pub[s] >>, << chk[s] >>))
       \/ /\ Raise(s, "StorageError")
          /\ UNCHANGED << committed, pending, idx, results, calls, found, pub, chk >>
    /\ UNCHANGED << clock, ticks, wlog, mainVars, anaVars, feedOut, entries, fetchErr, fetched >>

-----------------------------------------------------------------------------
(* poll_loop                                                               *)

\* lines 115-116: record the start, create one fetch_feed task per feed
StartCycle ==
    /\ mpc = "start" /\ cycle < MaxCycles
    /\ cycle' = cycle + 1
    /\ start' = clock
    /\ mpc' = "gather"
    /\ tpc' = [s \in FEEDS |-> "fetch"]
    /\ entries' = [s \in FEEDS |-> << >>]
    /\ idx' = [s \in FEEDS |-> 0]
    /\ found' = [s \in FEEDS |-> FALSE]
    /\ pub' = [s \in FEEDS |-> 0]
    /\ chk' = [s \in FEEDS |-> 0]
    /\ results' = [s \in FEEDS |-> << >>]
    /\ calls' = [s \in FEEDS |-> << >>]
    /\ fetchErr' = [s \in FEEDS |-> FALSE]
    /\ UNCHANGED << clock, ticks, dbVars, anaVars, feedOut, wakeAt, summary, fetched >>

FeedCountAll(s) == Len(results[s])

\* the int fetch_feed returns: sum of the booleans of its list comprehension
FeedCount(s) == SumSeq([i \in 1..Len(results[s]) |-> IF results[s][i] THEN 1 ELSE 0])

RECURSIVE SumOver(_, _)
SumOver(f, S) ==
    IF S = {} THEN 0
    ELSE LET x == CHOOSE y \in S : TRUE IN f[x] + SumOver(f, S \ {x})

SleepUnclamped(elapsed) == POLL_INTERVAL - elapsed

\* max(0, POLL_INTERVAL - elapsed)
SleepFor(elapsed) == Max(0, POLL_INTERVAL - elapsed)

AnyReturned == \E s \in FEEDS : tpc[s] = "done"

\* line 116: await asyncio.gather(...) resumes when every fetch_feed returned
AllReturned == \A s \in FEEDS : tpc[s] = "done"

\* lines 116-119: every task has returned; log the sum, compute the sleep
CycleEnd ==
    /\ mpc = "gather"
    /\ AllReturned
    /\ summary' = SumOver([s \in FEEDS |-> FeedCount(s)], FEEDS)
    /\ wakeAt' = clock + SleepFor(clock - start)
    /\ mpc' = "sleep"
    /\ UNCHANGED << clock, ticks, dbVars, anaVars, feedOut, taskVars, cycle, start >>

\* line 119: asyncio.sleep returns once its delay has passed
Wake ==
    /\ mpc = "sleep"
    /\ clock' = Max(clock, wakeAt)
    /\ mpc' = "start"
    /\ UNCHANGED << ticks, dbVars, anaVars, feedOut, taskVars, cycle, start, wakeAt, summary >>

\* line 116: gather (return_exceptions=False) hands the first exception of a
\* task to poll_loop; the other tasks are not cancelled by it and keep running
\* while poll_loop unwinds
GatherRaises ==
    /\ mpc = "gather"
    /\ \E s \in FEEDS : Raised(s)
    /\ mpc' = "unwinding"
    /\ UNCHANGED << clock, ticks, dbVars, anaVars, feedOut, taskVars, cycle, start, wakeAt,
                    summary >>

\* the tasks asyncio.run cancels when the main task is over
Abandon == [s \in FEEDS |-> IF tpc[s] = "done" \/ Raised(s) THEN tpc[s] ELSE "cancelled"]

\* line 112 (__aexit__) and line 124: the connection is closed, which rolls its
\* open transaction back, and asyncio.run cancels the tasks that are left
Crash ==
    /\ mpc = "unwinding"
    /\ mpc' = "dead"
    /\ pending' = << >>
    /\ tpc' = Abandon
    /\ UNCHANGED << clock, ticks, committed, wlog, anaVars, feedOut, cycle, start, wakeAt,
                    summary, entries, idx, found, pub, chk, results, calls,
                    fetchErr, fetched >>

\* time passes while the scraper runs
Tick(Steps) ==
    /\ mpc # "dead" /\ ticks < MaxTicks
    /\ \E d \in Steps : clock' = clock + d
    /\ ticks' = ticks + 1
    /\ UNCHANGED << dbVars, mainVars, taskVars, anaVars, feedOut >>

-----------------------------------------------------------------------------
(* news_impact_analyzer_v3.py: a separate process on the same database     *)

\* the rows of cur.fetchall() for  SELECT ... WHERE published >= ?
RECURSIVE SelectSince(_, _)
SelectSince(rows, bound) ==
    IF rows = << >> THEN << >>
    ELSE IF TextGE(Head(rows).published, bound)
           THEN << Head(rows) >> \o SelectSince(Tail(rows), bound)
           ELSE SelectSince(Tail(rows), bound)

fetch_recent_articles(rows, since_dt) ==
    LET got == SelectSince(rows, isoformat(since_dt, SepSpace))
    IN  [ i \in 1..Len(got) |->
            [ id        |-> got[i].id,
              title     |-> got[i].title,
              summary   |-> got[i].summary,
              published |-> dt_parse(got[i].published) ] ]

\* main, lines 150-153: its own connection sees the durable rows only
Analyze ==
    /\ apc = "idle"
    /\ since' = clock - Hours(LOOKBACK_HOURS)
    /\ articles' = fetch_recent_articles(committed, clock - Hours(LOOKBACK_HOURS))
    /\ nread' = Len(committed)
    /\ apc' = "read"
    /\ UNCHANGED << clock, ticks, dbVars, mainVars, taskVars, buckets, blocks, reply,
                    feedOut >>

MAX_ARTICLES_PER_TICKER == 8

\* the configured topics, in the order of the dict, and the aliases of each
\* (texts are sequences of character codes, as in isoformat above):
\*   "IBM": ["IBM"], "MSFT": ["Microsoft", "MS Corp", "MSFT"], "TSLA": ["Tesla"]
TickerOrder == << "IBM", "MSFT", "TSLA" >>

TICKERS ==
    [ IBM  |-> << << 73, 66, 77 >> >>,
      MSFT |-> << << 77, 105, 99, 114, 111, 115, 111, 102, 116 >>,
                  << 77, 83, 32, 67, 111, 114, 112 >>,
                  << 77, 83, 70, 84 >> >>,
      TSLA |-> << << 84, 101, 115, 108, 97 >> >> ]

\* str.lower() on the characters of the model: 'A'..'Z' go to 'a'..'z'
lower(text) ==
    [ i \in 1..Len(text) |-> IF text[i] \in 65..90 THEN text[i] + 32 ELSE text[i] ]

\* Python's  sub in text  for two strings
StrIn(sub, text) ==
    \E i \in 0..(Len(text) - Len(sub)) : SubSeq(text, i + 1, i + Len(sub)) = sub

\* the separator the f-string of line 157 puts between title and summary
TitleJoinedTight(title, text) == title \o text

TitleAndSummary(title, text) == title \o << 32 >> \o text

\* line 157
ArticleText(art) == lower(TitleAndSummary(art.title, art.summary))

\* line 159: any(alias.lower() in text for alias in aliases)
AnyAlias(aliases, text) ==
    \E k \in 1..Len(aliases) : StrIn(lower(aliases[k]), text)

\* lines 156-160: every article, in the order read, is appended to the bucket
\* of each topic one of whose aliases its text holds
RECURSIVE Bucketing(_, _)
Bucketing(arts, acc) ==
    IF arts = << >> THEN acc
    ELSE Bucketing(Tail(arts),
                   [ t \in DOMAIN acc |->
                       IF AnyAlias(TICKERS[t], ArticleText(Head(arts)))
                         THEN Append(acc[t], Head(arts))
                         ELSE acc[t] ])

\* main, lines 155-160
Bucketize ==
    /\ apc = "read"
    /\ buckets' = Bucketing(articles, [t \in DOMAIN TICKERS |-> << >>])
    /\ apc' = "bucketed"
    /\ UNCHANGED << clock, ticks, dbVars, mainVars, taskVars, since, articles, nread,
                    blocks, reply, feedOut >>

\* strftime("%Y-%m-%d %H:%M"): the instant, without its seconds
MinuteOf(t) == t - (t % 60)

NoNewsLine == [ kind |-> "(no relevant articles)" ]

ArticleLine(art) ==
    [ kind |-> "article", pub |-> MinuteOf(art.published), title |-> art.title,
      summary |-> art.summary ]

\* articles[:MAX_ARTICLES_PER_TICKER]
TrimAll(arts) == arts

Trim(arts) == SubSeq(arts, 1, Min(MAX_ARTICLES_PER_TICKER, Len(arts)))

\* build_user_msg for an empty list
EmptyBlockNoLines(ticker) == [ ticker |-> ticker, news |-> << >> ]

EmptyBlock(ticker) == [ ticker |-> ticker, news |-> << NoNewsLine >> ]

build_user_msg(ticker, arts) ==
    IF arts = << >> THEN EmptyBlock(ticker)
    ELSE [ ticker |-> ticker,
           news   |-> [ i \in 1..Len(Trim(arts)) |-> ArticleLine(Trim(arts)[i]) ] ]

\* main, lines 162-168: one block per item of the dict, in its order
BuildMsg ==
    /\ apc = "bucketed"
    /\ blocks' = [ k \in 1..Len(TickerOrder) |->
                     build_user_msg(TickerOrder[k], buckets[TickerOrder[k]]) ]
    /\ apc' = "built"
    /\ UNCHANGED << clock, ticks, dbVars, mainVars, taskVars, since, articles, nread,
                    buckets, reply, feedOut >>

\* what the completion call can come back with: a JSON text, a text that is
\* not JSON, a content that is no text at all, or an exception of the client
REPLIES == { "json", "malformed", "null", "error" }

\* ask_gpt4o: create() raises when the call fails, json.loads raises on a text
\* that is not JSON, and nothing in ask_gpt4o or main catches either
ask_gpt4o(r) == IF r \in { "json", "null" } THEN "asked" ELSE "crashed"

\* main, line 170
Ask ==
    /\ apc = "built"
    /\ \E r \in REPLIES :
          /\ reply' = r
          /\ apc' = ask_gpt4o(r)
    /\ UNCHANGED << clock, ticks, dbVars, mainVars, taskVars, since, articles, nread,
                    buckets, blocks, feedOut >>

\* main, lines 172-177: the predictions are dumped and main returns
Save ==
    /\ apc = "asked"
    /\ apc' = "saved"
    /\ UNCHANGED << clock, ticks, dbVars, mainVars, taskVars, since, articles, nread,
                    buckets, blocks, reply, feedOut >>

-----------------------------------------------------------------------------
(* Specifications                                                          *)

Init ==
    /\ clock = T0 /\ ticks = 0
    /\ committed = << >> /\ pending = << >> /\ wlog = {}
    /\ mpc = "start" /\ cycle = 0 /\ start = 0 /\ wakeAt = 0 /\ summary = 0
    /\ tpc = [s \in FEEDS |-> "idle"]
    /\ entries = [s \in FEEDS |-> << >>]
    /\ idx = [s \in FEEDS |-> 0]
    /\ found = [s \in FEEDS |-> FALSE]
    /\ pub = [s \in FEEDS |-> 0]
    /\ chk = [s \in FEEDS |-> 0]
    /\ results = [s \in FEEDS |-> << >>]
    /\ calls = [s \in FEEDS |-> << >>]
    /\ fetchErr = [s \in FEEDS |-> FALSE]
    /\ fetched = 0
    /\ apc = "idle" /\ since = 0 /\ articles = << >> /\ nread = 0
    /\ buckets = [t \in {} |-> << >>] /\ blocks = << >> /\ reply = "none"
    /\ feedOut = [s \in FEEDS |-> << >>]

LinkA == "https://x/a"
LinkB == "https://x/b"
LINKS == {LinkA, LinkB}

Entry(l, p, u) ==
    [ link |-> l, published_parsed |-> p, updated_parsed |-> u,
      title |-> "Acme reports earnings", summary |-> "" ]

\* raw items of the concurrency model: published exactly MAX_AGE_HOURS before
\* the start, or one second earlier
Items == { Entry(l, << t >>, << >>) : l \in LINKS, t \in {T0 - MaxAge, T0 - MaxAge - 1} }

Served == [s \in FEEDS |-> Items]

Steps == {1, POLL_INTERVAL}

Next ==
    \/ StartCycle
    \/ \E s \in FEEDS : Fetch(s, Served, MaxItems)
    \/ \E s \in FEEDS : Select(s)
    \/ \E s \in FEEDS : CheckDuplicate(s)
    \/ \E s \in FEEDS : CheckFresh(s)
    \/ \E s \in FEEDS : Insert(s)
    \/ \E s \in FEEDS : Commit(s)
    \/ CycleEnd
    \/ Wake
    \/ GatherRaises
    \/ Crash
    \/ Tick(Steps)

Spec == Init /\ [][Next]_vars

\* raw items of the timestamp model: every way an entry can carry its
\* timestamps, around the edge of the freshness window
Stamped ==
    { Entry(LinkA, << t >>, << >>) :
        t \in {T0 - MaxAge, T0 - MaxAge - 1, T0 + Hours(1)} }
    \cup { Entry(LinkB, << >>, << t >>) : t \in {T0 - MaxAge, T0 - MaxAge - 1} }
    \cup { Entry(LinkB, << T0 - MaxAge - 1 >>, << T0 >>),
           Entry(LinkB, << >>, << >>) }

\* one feed serves them, the other one is empty
ServedStamped == [s \in FEEDS |-> IF s = "topstories" THEN Stamped ELSE {}]

StepsSecond == {1}

\* a second, or one and a half polling intervals
StepsSlow == {1, POLL_INTERVAL + POLL_INTERVAL \div 2}

NextStamped ==
    \/ StartCycle
    \/ \E s \in FEEDS : Fetch(s, ServedStamped, MaxItems)
    \/ \E s \in FEEDS : Select(s)
    \/ \E s \in FEEDS : CheckDuplicate(s)
    \/ \E s \in FEEDS : CheckFresh(s)
    \/ \E s \in FEEDS : Insert(s)
    \/ \E s \in FEEDS : Commit(s)
    \/ CycleEnd
    \/ Wake
    \/ GatherRaises
    \/ Crash
    \/ Tick(StepsSecond)

SpecStamped == Init /\ [][NextStamped]_vars

\* raw items of the analyzer model: an hour old, a day old, undated
Dated ==
    { Entry(LinkA, << T0 - Hours(1) >>, << >>),
      Entry(LinkB, << T0 - MaxAge >>, << >>),
      Entry(LinkB, << >>, << >>) }

ServedDated == [s \in FEEDS |-> IF s = "topstories" THEN Dated ELSE {}]

StepsDay == {1, Hours(24)}

NextAnalyzer ==
    \/ StartCycle
    \/ \E s \in FEEDS : Fetch(s, ServedDated, MaxItems)
    \/ \E s \in FEEDS : Select(s)
    \/ \E s \in FEEDS : CheckDuplicate(s)
    \/ \E s \in FEEDS : CheckFresh(s)
    \/ \E s \in FEEDS : Insert(s)
    \/ \E s \in FEEDS : Commit(s)
    \/ CycleEnd
    \/ Wake
    \/ GatherRaises
    \/ Crash
    \/ Tick(StepsDay)
    \/ Analyze

SpecAnalyzer == Init /\ [][NextAnalyzer]_vars

\* raw items of the replay model: one link published one hour or exactly
\* MAX_AGE_HOURS before the start, the other one 48 hours before it
Replayed ==
    { Entry(LinkA, << t >>, << >>) : t \in {T0 - Hours(1), T0 - MaxAge} }
    \cup { Entry(LinkB, << T0 - Hours(48) >>, << >>) }

ServedReplayed == [s \in FEEDS |-> Replayed]

NextReplay ==
    \/ StartCycle
    \/ \E s \in FEEDS : FetchFixed(s, ServedReplayed, MaxItems)
    \/ \E s \in FEEDS : Select(s)
    \/ \E s \in FEEDS : CheckDuplicate(s)
    \/ \E s \in FEEDS : CheckFresh(s)
    \/ \E s \in FEEDS : Insert(s)
    \/ \E s \in FEEDS : Commit(s)
    \/ CycleEnd
    \/ Wake
    \/ GatherRaises
    \/ Crash
    \/ Tick(StepsSlow)

SpecReplay == Init /\ [][NextReplay]_vars

------------------------------------------------------------------------\* the store the analyzer is started on: rows as store_entry wrote them in
\* the last hour, each with a link and a minute of publication of its own
MaxRows == 10
MaxTexts == 2

LinkN(k) == << "https://x/", k >>

EntryText(l, p, u, title, text) ==
    [ link |-> l, published_parsed |-> p, updated_parsed |-> u,
      title |-> title, summary |-> text ]

\* "IBM wins" / "",  "Rain" / ""
PlainTexts ==
    { << << 73, 66, 77, 32, 119, 105, 110, 115 >>, << >> >>,
      << << 82, 97, 105, 110 >>, << >> >> }

\* "New MS" / "Corp deal",  "Big IB" / "M day",  "Rain" / "microsoft and ibm"
EdgeTexts ==
    { << << 78, 101, 119, 32, 77, 83 >>,
         << 67, 111, 114, 112, 32, 100, 101, 97, 108 >> >>,
      << << 66, 105, 103, 32, 73, 66 >>,
         << 77, 32, 100, 97, 121 >> >>,
      << << 82, 97, 105, 110 >>,
         << 109, 105, 99, 114, 111, 115, 111, 102, 116, 32, 97, 110, 100, 32, 105, 98, 109 >> >> }

PublishedN(k) == T0 - Hours(1) + 60 * k + k

StoreOf(texts) ==
    [ k \in 1..Len(texts) |->
        NewRow("topstories",
               EntryText(LinkN(k), << PublishedN(k) >>, << >>, texts[k][1], texts[k][2]),
               PublishedN(k)) ]

Stores ==
    { StoreOf(ts) : ts \in SeqsUpTo(PlainTexts, MaxRows) }
    \cup { StoreOf(ts) : ts \in SeqsUpTo(PlainTexts \cup EdgeTexts, MaxTexts) }

\* the scraper is not running; the analyzer starts on any of these stores
InitBuckets ==
    /\ clock = T0 /\ ticks = 0
    /\ committed \in Stores /\ pending = << >> /\ wlog = {}
    /\ mpc = "start" /\ cycle = 0 /\ start = 0 /\ wakeAt = 0 /\ summary = 0
    /\ tpc = [s \in FEEDS |-> "idle"]
    /\ entries = [s \in FEEDS |-> << >>]
    /\ idx = [s \in FEEDS |-> 0]
    /\ found = [s \in FEEDS |-> FALSE]
    /\ pub = [s \in FEEDS |-> 0]
    /\ chk = [s \in FEEDS |-> 0]
    /\ results = [s \in FEEDS |-> << >>]
    /\ calls = [s \in FEEDS |-> << >>]
    /\ fetchErr = [s \in FEEDS |-> FALSE]
    /\ fetched = 0
    /\ apc = "idle" /\ since = 0 /\ articles = << >> /\ nread = 0
    /\ buckets = [t \in {} |-> << >>] /\ blocks = << >> /\ reply = "none"
    /\ feedOut = [s \in FEEDS |-> << >>]

NextBuckets ==
    \/ Analyze
    \/ Bucketize
    \/ BuildMsg
    \/ Ask
    \/ Save

SpecBuckets == InitBuckets /\ [][NextBuckets]_vars

-----
(* Properties                                                              *)

\* the store_entry calls of the running cycle that have returned
Returned == { << s, i >> \in FEEDS \X (1..MaxItems) : i <= Len(results[s]) }

RowsOf(rows, link) == { i \in 1..Len(rows) : rows[i].id = article_id(link) }

\* C1: in every reachable state there is at most one article row per
\* fingerprint, among the durable rows and those of the open transaction,
\* whatever the interleaving of the per-source tasks.
C1_OneRowPerFingerprint ==
    \A i, j \in 1..Len(Visible) : Visible[i].id = Visible[j].id => i = j

\* two sources returned the same link in one cycle, both saw no row, one of
\* them has written the row and the other one's INSERT was refused
C1_Witness ==
    \E s, t \in FEEDS :
        /\ s # t /\ idx[s] > 0 /\ idx[t] > 0
        /\ Cur(s).link = Cur(t).link
        /\ tpc[s] = "commit" /\ tpc[t] = "IntegrityError"
        /\ Cardinality(RowsOf(Visible, Cur(s).link)) = 1

\* C2: when two tasks of one cycle process items with the same link, neither
\* store_entry call ends in an error, and once both have returned and a row
\* was written exactly one of them has returned true.
C2_ExactlyOneNewNoError ==
    \A s, t \in FEEDS :
        (s # t /\ idx[s] > 0 /\ idx[t] > 0 /\ Cur(s).link = Cur(t).link)
        => /\ tpc[s] # "IntegrityError"
           /\ (/\ Len(results[s]) >= idx[s] /\ Len(results[t]) >= idx[t]
               /\ (results[s][idx[s]] \/ results[t][idx[t]]))
              => results[s][idx[s]] # results[t][idx[t]]

\* C3: ingesting the same link again stores nothing more: a call on a fresh
\* item that finds no row returns true and its row is durable; every call
\* for a link whose row was written before (earlier in the same feed, or in
\* an earlier cycle) returns false; so one row per ingested link.
C3_IdempotentIngestion ==
    \A c \in Returned :
        LET s == c[1]
            i == c[2]
            l == entries[s][i].link
        IN  /\ (~calls[s][i].found /\ calls[s][i].pub[1] >= calls[s][i].now[1] - MaxAge)
               => results[s][i]
            /\ results[s][i]
               => /\ Cardinality(RowsOf(committed, l)) = 1
                  /\ \A j \in 1..Len(results[s]) :
                        (j # i /\ entries[s][j].link = l) => ~results[s][j]
                  /\ \A j \in (i + 1)..Len(results[s]) :
                        entries[s][j].link = l => calls[s][j].found
            /\ (\E w \in wlog : w.id = article_id(l) /\ w.cycle < cycle)
               => ~results[s][i]

\* one feed returned the same link twice: the first call wrote the row, the
\* second one found it
C3_Witness ==
    \E s \in FEEDS :
        /\ Len(results[s]) = 2
        /\ entries[s][1].link = entries[s][2].link
        /\ results[s] = << TRUE, FALSE >>
        /\ Cardinality(RowsOf(committed, entries[s][1].link)) = 1

\* C4: when the fetch of one source fails in a cycle, no task of another
\* source that returned items is abandoned, and at the end of the cycle every
\* item of the other sources that is still fresh has its row.
C4_OtherSourcesComplete ==
    \A s, t \in FEEDS :
        (s # t /\ fetchErr[s] /\ ~fetchErr[t] /\ ~Raised(t) /\ Len(entries[t]) > 0)
        => /\ tpc[t] # "cancelled"
           /\ mpc \in {"sleep", "dead"}
              => \A i \in 1..Len(entries[t]) :
                    IsFresh(parse_datetime(entries[t][i], clock), clock)
                    => RowExists(committed, article_id(entries[t][i].link))

\* C5: a fetch error does not end poll_loop (so that the next cycle can
\* start and fetch the source again).
C5_FetchErrorKeepsLoop ==
    ((\E s \in FEEDS : fetchErr[s])
        /\ (\A t \in FEEDS : tpc[t] \notin {"StorageError", "IntegrityError"}))
    => mpc \notin {"unwinding", "dead"}

\* C6: a failure of the store while an item is persisted fails that item
\* only: it does not abort the cycle or poll_loop.
C6_StorageErrorIsolated ==
    (\E s \in FEEDS : tpc[s] = "StorageError") => mpc \notin {"unwinding", "dead"}

\* C7: a store_entry call that found no row accepts the item iff its
\* resolved instant >= now - max_age, with now the instant read by the
\* freshness test: equality is accepted, there is no upper bound.
C7_FreshnessBoundary ==
    /\ \A c \in Returned :
          LET seen == calls[c[1]][c[2]]
          IN  ~seen.found => (results[c[1]][c[2]] <=> seen.pub[1] >= seen.now[1] - MaxAge)
    /\ \A s \in FEEDS :
          tpc[s] \in {"insert", "commit"} => pub[s] >= chk[s] - MaxAge

\* an item dated exactly now - max_age was accepted
C7_Witness ==
    \E c \in Returned :
        LET seen == calls[c[1]][c[2]]
        IN  /\ ~seen.found /\ results[c[1]][c[2]]
            /\ seen.pub[1] = seen.now[1] - MaxAge

\* the other two cases of C7: one second older is rejected, the future is
\* accepted
C7_WitnessRejected ==
    \E c \in Returned :
        LET seen == calls[c[1]][c[2]]
        IN  /\ ~seen.found /\ ~results[c[1]][c[2]]
            /\ seen.pub[1] = seen.now[1] - MaxAge - 1

C7_WitnessFuture ==
    \E c \in Returned :
        LET seen == calls[c[1]][c[2]]
        IN  /\ ~seen.found /\ results[c[1]][c[2]]
            /\ seen.pub[1] > seen.now[1]

\* C8: the timestamp of an item is its published timestamp when present, else
\* its updated timestamp when present, else the instant of the resolution (at
\* most the second before the freshness test reads the clock); an item with
\* neither timestamp is judged fresh and accepted.
C8_TimestampFallback ==
    \A c \in Returned :
        LET e == entries[c[1]][c[2]]
            seen == calls[c[1]][c[2]]
        IN  ~seen.found
            => /\ Len(e.published_parsed) > 0 => seen.pub[1] = e.published_parsed[1]
               /\ (Len(e.published_parsed) = 0 /\ Len(e.updated_parsed) > 0)
                     => seen.pub[1] = e.updated_parsed[1]
               /\ (Len(e.published_parsed) = 0 /\ Len(e.updated_parsed) = 0)
                     => /\ seen.pub[1] \in {seen.now[1] - 1, seen.now[1]}
                        /\ results[c[1]][c[2]]

\* an item with neither timestamp was accepted, the clock having moved
\* between the resolution and the freshness test
C8_Witness ==
    \E c \in Returned :
        LET e == entries[c[1]][c[2]]
            seen == calls[c[1]][c[2]]
        IN  /\ Len(e.published_parsed) = 0 /\ Len(e.updated_parsed) = 0
            /\ ~seen.found /\ results[c[1]][c[2]]
            /\ seen.pub[1] = seen.now[1] - 1

\* an item with only an updated timestamp resolved to it
C8_WitnessUpdated ==
    \E c \in Returned :
        LET e == entries[c[1]][c[2]]
            seen == calls[c[1]][c[2]]
        IN  /\ Len(e.published_parsed) = 0 /\ Len(e.updated_parsed) > 0
            /\ ~seen.found /\ results[c[1]][c[2]]

\* C9: every row has a published text that reads back as the instant its
\* INSERT was given, and that instant was >= (now of the freshness test that
\* admitted it) - max_age.
C9_RowsWereFresh ==
    \A i \in 1..Len(Visible) :
        /\ Len(Visible[i].published) > 0
        /\ \E w \in wlog :
              /\ w.id = Visible[i].id
              /\ dt_parse(Visible[i].published) = w.pub
              /\ w.pub >= w.now - MaxAge

\* a durable row that was admitted at the very edge of the window
C9_Witness ==
    \E i \in 1..Len(committed) :
        \E w \in wlog :
            /\ w.id = committed[i].id
            /\ dt_parse(committed[i].published) = w.pub
            /\ w.pub = w.now - MaxAge

\* C10: fetch_recent_articles(since) returns exactly the durable articles
\* whose published instant is >= since.
C10_QuerySinceExact ==
    apc = "read"
    => /\ \A i \in 1..Len(articles) : articles[i].published >= since
       /\ \A j \in 1..nread :
             dt_parse(committed[j].published) >= since
             => \E i \in 1..Len(articles) : articles[i].id = committed[j].id

\* the half of C10 the code keeps: no article inside the window is left out
C10_NoneMissing ==
    apc = "read"
    => \A j \in 1..nread :
          dt_parse(committed[j].published) >= since
          => \E i \in 1..Len(articles) : articles[i].id = committed[j].id

-----------------------------------------------------------------------------
(* Properties of the analyzer's bucketing pass                              *)

\* two characters that differ at most in the case of a letter
SameLetter(a, b) ==
    \/ a = b
    \/ a \in 65..90 /\ b = a + 32
    \/ b \in 65..90 /\ a = b + 32

\* alias occurs in text, whatever the case of the letters
Occurs(alias, text) ==
    \E i \in 0..(Len(text) - Len(alias)) :
        \A j \in 1..Len(alias) : SameLetter(alias[j], text[i + j])

OccursAny(t, text) == \E k \in 1..Len(TICKERS[t]) : Occurs(TICKERS[t][k], text)

\* at how many places of bucket t the article is
Places(t, art) == { j \in 1..Len(buckets[t]) : buckets[t][j] = art }

Bucketed == apc \in { "bucketed", "built", "asked", "crashed", "saved" }

\* the topics whose bucket holds the i-th article read
TopicsOf(i) == { t \in DOMAIN buckets : Places(t, articles[i]) # {} }

\* C11 as stated: an article is in a topic's bucket exactly when one of the
\* topic's aliases occurs, whatever the case, in the title immediately
\* followed by the summary.
C11_TitleThenSummary ==
    Bucketed =>
        \A t \in DOMAIN TICKERS : \A i \in 1..Len(articles) :
            Places(t, articles[i]) # {}
                <=> OccursAny(t, articles[i].title \o articles[i].summary)

\* C11, amended: an article is in a topic's bucket (once) exactly when one of
\* the topic's aliases occurs, whatever the case, in the text made of the
\* title, one space and the summary; each topic is decided on its own.
C11_AliasInTitleSpaceSummary ==
    Bucketed =>
        /\ DOMAIN buckets = DOMAIN TICKERS
        /\ \A t \in DOMAIN TICKERS : \A i \in 1..Len(articles) :
              /\ Cardinality(Places(t, articles[i])) <= 1
              /\ Places(t, articles[i]) # {}
                    <=> OccursAny(t, articles[i].title \o << 32 >> \o articles[i].summary)

\* two articles read, one in no bucket and one in two of them
C11_Witness ==
    /\ Bucketed
    /\ \E i, j \in 1..Len(articles) :
          /\ TopicsOf(i) = {}
          /\ TopicsOf(j) = { "IBM", "MSFT" }

\* an article in the bucket of a topic for an alias that spans the end of
\* the title and the start of the summary
C11_WitnessAcross ==
    /\ Bucketed
    /\ \E i \in 1..Len(articles) :
          /\ "MSFT" \in TopicsOf(i)
          /\ ~OccursAny("MSFT", articles[i].title)
          /\ ~OccursAny("MSFT", articles[i].summary)

\* the places in the list read of the articles that match topic t
Matches(t) ==
    { i \in 1..Len(articles) :
        OccursAny(t, articles[i].title \o << 32 >> \o articles[i].summary) }

\* the j-th of them in the order read
NthMatch(t, j) ==
    CHOOSE i \in Matches(t) : Cardinality({ m \in Matches(t) : m < i }) = j - 1

Built == apc \in { "built", "asked", "crashed", "saved" }

\* C12: the lines of a topic's block are the first
\* min(MAX_ARTICLES_PER_TICKER, matches) matching articles in the order they
\* were read: later matches are left out and the kept ones are not reordered.
C12_FirstMatchesInReadOrder ==
    Built =>
        \A k \in 1..Len(blocks) :
            LET t == blocks[k].ticker
                n == Cardinality(Matches(t))
                kept == IF n <= 8 THEN n ELSE 8
            IN  n > 0 =>
                  /\ Len(blocks[k].news) = kept
                  /\ \A j \in 1..kept :
                        LET art == articles[NthMatch(t, j)]
                        IN  /\ blocks[k].news[j].kind = "article"
                            /\ blocks[k].news[j].title = art.title
                            /\ blocks[k].news[j].summary = art.summary
                            /\ art.published - blocks[k].news[j].pub \in 0..59

\* a topic with more matches than fit, and an article that does not match
\* among the ones read before the last match that is kept
C12_Witness ==
    /\ Built
    /\ \E k \in 1..Len(blocks) :
          /\ Cardinality(Matches(blocks[k].ticker)) > MAX_ARTICLES_PER_TICKER
          /\ Len(blocks[k].news) = MAX_ARTICLES_PER_TICKER
          /\ NthMatch(blocks[k].ticker, MAX_ARTICLES_PER_TICKER) > MAX_ARTICLES_PER_TICKER

\* the blocks written for topic t
BlocksOf(t) == { k \in 1..Len(blocks) : blocks[k].ticker = t }

\* C13: every configured topic has a bucket and exactly one block; a topic no
\* article matches has an empty bucket and its block says "(no relevant
\* articles)" instead of being left out.
C13_EveryTopicHasBlock ==
    Built =>
        /\ DOMAIN buckets = DOMAIN TICKERS
        /\ \A t \in DOMAIN TICKERS :
              /\ Cardinality(BlocksOf(t)) = 1
              /\ Matches(t) = {} =>
                    /\ buckets[t] = << >>
                    /\ \A k \in BlocksOf(t) :
                          /\ Len(blocks[k].news) = 1
                          /\ blocks[k].news[1].kind = "(no relevant articles)"

\* articles were read, one topic has some and another one has none
C13_Witness ==
    /\ Built
    /\ \E t, u \in DOMAIN TICKERS :
          /\ Matches(t) # {}
          /\ Matches(u) = {}
          /\ \E k \in BlocksOf(u) : blocks[k].news = << NoNewsLine >>

\* C14: a reply of the classifier that is not JSON, or a call that fails,
\* does not end the run in an exception: the run goes on to its normal end.
C14_BadReplyDoesNotCrash ==
    reply \in { "malformed", "error" } => apc \in { "asked", "saved" }

-----------------------------------------------------------------------------
(* Properties of the polling loop                                          *)

InCall(s) == tpc[s] \in { "select", "check", "insert", "commit" }

\* the rows written (inserted, committed or not) while cycle c ran
WrittenIn(c) == { w \in wlog : w.cycle = c }

\* C15: when the feeds return in a later cycle the very entries they returned
\* in the first one, that cycle adds nothing: every call returns false, none
\* gets as far as the INSERT, and the store keeps the rows of the first cycle.
C15_ReplayAddsNothing ==
    cycle >= 2 =>
        /\ \A s \in FEEDS :
              (tpc[s] \notin { "idle", "fetch" } /\ entries[s] = feedOut[s]) =>
                  /\ tpc[s] \notin { "insert", "commit", "IntegrityError" }
                  /\ \A i \in 1..Len(results[s]) : results[s][i] = FALSE
        /\ \A c \in 2..cycle : WrittenIn(c) = {}
        /\ pending = << >>
        /\ Len(committed) = Cardinality(WrittenIn(1))
        /\ mpc = "sleep" => summary = 0

\* the second cycle is over; the feeds served one item published an hour
\* before the start and one published 48 hours before it, and the store holds
\* exactly one row, the one the first cycle wrote
C15_Witness ==
    /\ cycle = 2 /\ mpc = "sleep" /\ summary = 0
    /\ \E s, t \in FEEDS :
          /\ \E i \in 1..Len(feedOut[s]) :
                feedOut[s][i].published_parsed = << T0 - Hours(1) >>
          /\ \E i \in 1..Len(feedOut[t]) :
                feedOut[t][i].published_parsed = << T0 - Hours(48) >>
    /\ Len(committed) = 1
    /\ dt_parse(committed[1].published) = T0 - Hours(1)
    /\ \A s \in FEEDS : Len(results[s]) = Len(feedOut[s])

Running(s) == tpc[s] = "fetch" \/ InCall(s)

\* C16: cycles never overlap.  While poll_loop logs the summary, sleeps or is
\* about to start the next cycle no fetch_feed task is running, and the tasks
\* of a later cycle are started no earlier than the instant the sleep of the
\* cycle before was due to end.
C16_CyclesNeverOverlap ==
    /\ mpc \in { "sleep", "start" } => \A s \in FEEDS : ~Running(s)
    /\ (cycle >= 2 /\ mpc \in { "gather", "unwinding", "dead" }) => start >= wakeAt

\* a task of the second cycle is at work, after a sleep that took its time
C16_Witness ==
    /\ cycle = 2 /\ mpc = "gather"
    /\ \E s \in FEEDS : InCall(s)
    /\ \E s \in FEEDS : tpc[s] = "done"
    /\ wakeAt >= T0 + POLL_INTERVAL
    /\ start >= wakeAt

\* C17: when a cycle ends, the sleep that is set up lasts the polling
\* interval less the time since the recorded start of the cycle, and nothing
\* when that time is the interval or more; it is never negative.  The sleep
\* ends when it is due, or at once when it is due already, and the loop goes
\* on with the one next cycle.
C17_SleepIsRemainder ==
    [][ /\ (mpc = "gather" /\ mpc' = "sleep") =>
              LET elapsed == clock - start
                  delay == wakeAt' - clock
              IN  /\ delay >= 0
                  /\ elapsed >= 60 => delay = 0
                  /\ elapsed < 60 => delay = 60 - elapsed
        /\ (mpc = "sleep" /\ mpc' = "start") =>
              /\ clock' >= wakeAt
              /\ clock >= wakeAt => clock' = clock
        /\ cycle' \in { cycle, cycle + 1 }
      ]_vars

\* a cycle that took longer than the interval has ended: no sleep is left
C17_Witness ==
    /\ mpc = "sleep"
    /\ clock - start > POLL_INTERVAL
    /\ wakeAt = clock

\* the next cycle has started right at the end of a slow one
C17_WitnessNoDelay ==
    /\ cycle = 2 /\ mpc = "gather"
    /\ start = wakeAt
    /\ wakeAt > T0 + POLL_INTERVAL
    /\ \E s \in FEEDS : tpc[s] = "done" /\ Len(results[s]) > 0

\* the places in the connection's view of the rows feed s wrote this cycle
RowsFrom(s) ==
    { i \in 1..Len(Visible) :
        /\ Visible[i].feed = s
        /\ \E w \in WrittenIn(cycle) : w.id = Visible[i].id }

\* C18: within one feed and one cycle the entries are handled in the order
\* the feed returned them.  While store_entry works on the entry at place i
\* exactly the i - 1 calls for the entries before it have returned, a task
\* that is done has a result for every entry, and the rows the feed wrote
\* stand in the store in the order of their entries.
C18_FeedOrder ==
    \A s \in FEEDS :
        /\ InCall(s) => (idx[s] \in 1..Len(entries[s]) /\ Len(results[s]) = idx[s] - 1)
        /\ tpc[s] = "done" => Len(results[s]) = Len(entries[s])
        /\ Running(s) \/ tpc[s] = "done" =>
              \A i, j \in RowsFrom(s) :
                  i < j => \E a, b \in 1..Len(entries[s]) :
                              /\ a < b
                              /\ a <= Len(results[s]) + 1 /\ b <= Len(results[s]) + 1
                              /\ entries[s][a].link = Visible[i].link
                              /\ entries[s][b].link = Visible[j].link

\* a feed that returned two entries with different links has written a row
\* for each of them, the second one after the other feed's task had ended
C18_Witness ==
    \E s, t \in FEEDS :
        /\ s # t /\ tpc[t] = "done"
        /\ tpc[s] = "commit" /\ idx[s] = 2 /\ Len(entries[s]) = 2
        /\ entries[s][1].link # entries[s][2].link
        /\ Cardinality(RowsFrom(s)) = 2

IsPrefix(a, b) == Len(a) <= Len(b) /\ \A i \in 1..Len(a) : b[i] = a[i]

\* this step is the return of a store_entry call of feed s with False
ReturnsFalse(s) ==
    /\ Len(results'[s]) = Len(results[s]) + 1
    /\ ~results'[s][Len(results'[s])]

\* C19: the durable rows only grow: every step leaves each of them in its
\* place with all its fields, and a step in which store_entry returns False
\* changes neither the durable rows nor the open transaction.
C19_StoreOnlyGrows ==
    [][ /\ IsPrefix(committed, committed')
        /\ \A s \in FEEDS :
              ReturnsFalse(s) => (committed' = committed /\ pending' = pending)
      ]_vars

\* a feed whose first entry was stored and whose second one was turned
\* down, the row of the first still there
C19_Witness ==
    \E s \in FEEDS :
        /\ results[s] = << TRUE, FALSE >>
        /\ \E i \in 1..Len(committed) : committed[i].link = entries[s][1].link

\* the rows that became durable while cycle c ran
AddedIn(c) ==
    { i \in 1..Len(committed) : \E w \in WrittenIn(c) : w.id = committed[i].id }

\* C20: the count a cycle logs is the number of rows that were added to the
\* store during the cycle, over all feeds.
C20_SummaryCountsNewRows ==
    (cycle >= 1 /\ mpc \in { "sleep", "start" })
        => summary = Cardinality(AddedIn(cycle))

\* a cycle that logged 2: each of the two feeds stored its one entry
C20_Witness ==
    /\ mpc = "sleep" /\ summary = 2
    /\ \A s \in FEEDS : results[s] = << TRUE >>

\* a cycle that logged 1 although two calls were made
C20_WitnessRejected ==
    /\ mpc = "sleep" /\ summary = 1
    /\ \E s \in FEEDS : Len(results[s]) = 2

====
